---- MODULE Spec2Model ----
(***************************************************************************)
(* generate_gallery.py: a static photo gallery generator.  One run scans   *)
(* the images directory, reads each image's metadata with exiftool, groups *)
(* the images by keyword, renders an index page, one page per tag and one  *)
(* page per (image, tag), copies the images and makes thumbnails.          *)
(*                                                                         *)
(* A Python str is modelled as a sequence of one-character strings, so     *)
(* that comparison, lower(), endswith(), splitext() and slugify() are      *)
(* computed character by character.                                        *)
(***************************************************************************)
EXTENDS Integers, Sequences, FiniteSets, TLC

VARIABLES
    pc,              \* position of main(), or of the get_metadata call
    images_dir,      \* IMAGES_DIR: filename -> what exiftool prints for it
    tag_to_images,   \* main's tag_to_images: the dict, in insertion order
    rendered,        \* every template.render + write made so far, in order
    output,          \* OUTPUT_DIR: path -> the page last written there
    output_images,   \* OUTPUT_DIR/images: the filenames copied
    output_thumbs,   \* OUTPUT_DIR/thumbs: the thumbnails made
    stdout,          \* what main printed
    exiftool_calls,  \* the files exiftool was run on, in order
    returned         \* what a lone get_metadata call returned

vars == <<pc, images_dir, tag_to_images, rendered, output, output_images,
          output_thumbs, stdout, exiftool_calls, returned>>

\* ---------------------------------------------------------------- bounds

\* Most files in the images directory.
MaxFiles == 3

\* Longest Keywords list exiftool reports.
MaxKeywords == 2

\* ---------------------------------------------------------------- str

\* Python's None; no str (a sequence of characters) equals it.
None == <<"None">>

\* ord(c) of the characters the model's names are written with.
Ord(c) ==
    CASE c = " " -> 32  [] c = "-" -> 45  [] c = "." -> 46  [] c = "7" -> 55
      [] c = "A" -> 65  [] c = "B" -> 66  [] c = "G" -> 71  [] c = "I" -> 73
      [] c = "J" -> 74  [] c = "P" -> 80  [] c = "X" -> 88
      [] c = "a" -> 97  [] c = "b" -> 98  [] c = "d" -> 100 [] c = "e" -> 101
      [] c = "g" -> 103 [] c = "i" -> 105 [] c = "j" -> 106 [] c = "n" -> 110
      [] c = "p" -> 112 [] c = "t" -> 116 [] c = "x" -> 120

\* str.lower() on one character.
LowerChar(c) ==
    CASE c = "A" -> "a" [] c = "B" -> "b" [] c = "G" -> "g" [] c = "I" -> "i"
      [] c = "J" -> "j" [] c = "P" -> "p" [] c = "X" -> "x" [] OTHER -> c

\* str.lower()
lower(s) == [i \in 1..Len(s) |-> LowerChar(s[i])]

\* [a-zA-Z0-9]
IsAlnum(c) == c \notin {" ", "-", "."}

\* str.endswith(suffix)
endswith(s, suffix) ==
    /\ Len(s) >= Len(suffix)
    /\ SubSeq(s, Len(s) - Len(suffix) + 1, Len(s)) = suffix

\* a < b on str: by code point, the shorter of two equal prefixes first.
RECURSIVE StrLess(_, _)
StrLess(a, b) ==
    IF b = <<>> THEN FALSE
    ELSE IF a = <<>> THEN TRUE
    ELSE IF Ord(Head(a)) # Ord(Head(b)) THEN Ord(Head(a)) < Ord(Head(b))
    ELSE StrLess(Tail(a), Tail(b))

\* slugify(text) of python-slugify with its defaults: lower case, every run of
\* characters other than letters and digits becomes one "-", and no "-" at
\* either end.
RECURSIVE SlugScan(_, _)
SlugScan(text, acc) ==
    IF text = <<>> THEN acc
    ELSE IF IsAlnum(Head(text))
         THEN SlugScan(Tail(text), Append(acc, LowerChar(Head(text))))
    ELSE IF acc = <<>> \/ acc[Len(acc)] = "-"
         THEN SlugScan(Tail(text), acc)
    ELSE SlugScan(Tail(text), Append(acc, "-"))

slugify(text) ==
    LET s == SlugScan(text, <<>>)
    IN  IF s # <<>> /\ s[Len(s)] = "-" THEN SubSeq(s, 1, Len(s) - 1) ELSE s

\* os.path.splitext(filename)[0]: the name up to its last dot; leading dots
\* are part of the name.
splitext_root(filename) ==
    LET dots == {i \in 1..Len(filename) : filename[i] = "."}
        last == CHOOSE i \in dots : \A j \in dots : j <= i
    IN  IF dots = {} \/ \A j \in 1..(last - 1) : filename[j] = "."
        THEN filename
        ELSE SubSeq(filename, 1, last - 1)

\* filename.lower().endswith((".jpg", ".jpeg", ".png"))
IsImage(filename) ==
    \/ endswith(lower(filename), <<".", "j", "p", "g">>)
    \/ endswith(lower(filename), <<".", "j", "p", "e", "g">>)
    \/ endswith(lower(filename), <<".", "p", "n", "g">>)

\* ---------------------------------------------------------------- inputs

\* The file names a directory is drawn from.
a_jpg == <<"a", ".", "j", "p", "g">>
A_png == <<"A", ".", "p", "n", "g">>
B_JPG == <<"B", ".", "J", "P", "G">>
n_txt == <<"n", ".", "t", "x", "t">>
FileNames == {a_jpg, A_png, B_JPG, n_txt}

\* JSON values exiftool reports inside Keywords.
JStr(s) == [t |-> "str", v |-> s]
JNum(digits) == [t |-> "num", v |-> digits]
JNull == [t |-> "null", v |-> <<>>]

\* The keyword strings of the runs, and the elements a lone get_metadata call
\* is tried on.
tag_Index == <<"I", "n", "d", "e", "x">>
tag_index == <<"i", "n", "d", "e", "x">>
TagStrings == {tag_Index, tag_index}
RunElems == {JStr(s) : s \in TagStrings}
CallElems == {JStr(<<"X">>), JStr(<<>>), JNum(<<"7">>), JNull}

\* Sequences over S of length at most n.
SeqsUpTo(S, n) == UNION {[1..k -> S] : k \in 0..n}

\* data.get("Keywords"): absent, one string, a list, or another JSON value.
KeywordFields(elems) ==
    {[shape |-> "absent", elems |-> <<>>]}
    \cup {[shape |-> "str", elems |-> <<e>>] : e \in {x \in elems : x.t = "str"}}
    \cup {[shape |-> "other", elems |-> <<e>>] : e \in {x \in elems : x.t = "num"}}
    \cup {[shape |-> "list", elems |-> l] : l \in SeqsUpTo(elems, MaxKeywords)}

\* The attributes METADATA_FIELDS reads.
METADATA_FIELDS ==
    [City |-> "City", State |-> "Province-State", Date |-> "DateTimeOriginal"]

Attributes == {METADATA_FIELDS[k] : k \in DOMAIN METADATA_FIELDS}

NoAttributes == [a \in Attributes |-> None]

\* What exiftool -j prints for a file: JSON that json.loads(...)[0] accepts
\* (ok) with its attributes, or output that it raises on.
Unparseable ==
    [ok |-> FALSE, attrs |-> NoAttributes,
     Keywords |-> [shape |-> "absent", elems |-> <<>>]]

RunOutputs ==
    {Unparseable}
    \cup {[ok |-> TRUE, attrs |-> NoAttributes, Keywords |-> k] :
            k \in KeywordFields(RunElems)}

CallOutputs ==
    {Unparseable}
    \cup {[ok |-> TRUE, attrs |-> a, Keywords |-> k] :
            a \in [Attributes -> {None, <<>>, <<"a">>}],
            k \in KeywordFields(CallElems)}

\* ---------------------------------------------------------------- get_metadata

\* str(k) of a JSON value: a string is itself, a number its digits.
str(k) == IF k.t = "null" THEN <<"N", "o", "n", "e">> ELSE k.v

\* [str(k) for k in keywords]: None becomes the keyword "None".
StrEvery(keywords) == [i \in 1..Len(keywords) |-> str(keywords[i])]

\* [str(k) for k in keywords if k is not None]
RECURSIVE StrNotNone(_)
StrNotNone(keywords) ==
    IF keywords = <<>> THEN <<>>
    ELSE IF Head(keywords).t # "null"
         THEN <<str(Head(keywords))>> \o StrNotNone(Tail(keywords))
    ELSE StrNotNone(Tail(keywords))

\* The keywords get_metadata returns for data.get("Keywords").
ExtractKeywords(keywords) ==
    IF keywords.shape = "str" THEN <<keywords.elems[1].v>>
    ELSE IF keywords.shape = "list" THEN StrNotNone(keywords.elems)
    ELSE <<>>

\* The metadata dict: the keys whose attribute is present and not empty.
CollectMetadata(data) ==
    LET keys == {k \in DOMAIN METADATA_FIELDS :
                    /\ data.attrs[METADATA_FIELDS[k]] # None
                    /\ data.attrs[METADATA_FIELDS[k]] # <<>>}
    IN  [k \in keys |-> data.attrs[METADATA_FIELDS[k]]]

\* get_metadata(filepath), given what exiftool printed; data.ok is checked by
\* the caller, because json.loads raises before anything is returned.
get_metadata(data) ==
    [metadata |-> CollectMetadata(data), keywords |-> ExtractKeywords(data.Keywords)]

\* ---------------------------------------------------------------- collect_images

\* sorted(os.listdir(IMAGES_DIR)): insertion sort by StrLess.
RECURSIVE InsertName(_, _)
InsertName(name, s) ==
    IF s = <<>> THEN <<name>>
    ELSE IF StrLess(name, Head(s)) THEN <<name>> \o s
    ELSE <<Head(s)>> \o InsertName(name, Tail(s))

\* The listing as os.listdir gave it (sorted() left out).
unsorted_listing(listing) == listing

RECURSIVE sorted_listing(_)
sorted_listing(listing) ==
    IF listing = <<>> THEN <<>>
    ELSE InsertName(Head(listing), sorted_listing(Tail(listing)))

\* tag_to_images[tag].append(image_data) on the defaultdict(list): a new key
\* goes last.
AppendImage(catalog, tag, image_data) ==
    IF \E i \in 1..Len(catalog) : catalog[i].tag = tag
    THEN [i \in 1..Len(catalog) |->
            IF catalog[i].tag = tag
            THEN [catalog[i] EXCEPT !.images = Append(@, image_data)]
            ELSE catalog[i]]
    ELSE Append(catalog, [tag |-> tag, images |-> <<image_data>>])

\* for keyword in keywords: tag_to_images[str(keyword)].append(image_data)
RECURSIVE AppendToTags(_, _, _)
AppendToTags(catalog, keywords, image_data) ==
    IF keywords = <<>> THEN catalog
    ELSE AppendToTags(AppendImage(catalog, Head(keywords), image_data),
                      Tail(keywords), image_data)

\* The loop of collect_images over the sorted names, with the directory dir:
\* the catalog, the exiftool calls made, and whether get_metadata raised.
RECURSIVE ScanFiles(_, _, _, _)
ScanFiles(dir, names, catalog, calls) ==
    IF names = <<>> THEN [raised |-> FALSE, catalog |-> catalog, calls |-> calls]
    ELSE LET filename == Head(names) IN
         IF ~IsImage(filename) THEN ScanFiles(dir, Tail(names), catalog, calls)
         ELSE IF ~dir[filename].ok
              THEN [raised |-> TRUE, catalog |-> <<>>,
                    calls |-> Append(calls, filename)]
         ELSE LET got == get_metadata(dir[filename])
                  image_data == [filename |-> filename,
                                 slug |-> slugify(splitext_root(filename)),
                                 metadata |-> got.metadata]
              IN  ScanFiles(dir, Tail(names),
                            AppendToTags(catalog, got.keywords, image_data),
                            Append(calls, filename))

\* collect_images with the files exiftool fails on skipped (try/except
\* continue around get_metadata).
collect_images_skip(dir, listing) ==
    ScanFiles(dir,
              SelectSeq(sorted_listing(listing), LAMBDA f : ~IsImage(f) \/ dir[f].ok),
              <<>>, <<>>)

collect_images(dir, listing) ==
    ScanFiles(dir, sorted_listing(listing), <<>>, <<>>)

\* os.listdir: the names of a directory in any order.
Listings(dir) ==
    {l \in [1..Cardinality(DOMAIN dir) -> DOMAIN dir] :
        \A i, j \in 1..Len(l) : i # j => l[i] # l[j]}

\* ---------------------------------------------------------------- main

Directories ==
    UNION {[names -> RunOutputs] :
            names \in {S \in SUBSET FileNames : Cardinality(S) <= MaxFiles}}

\* A directory holds exiftool output only for the files exiftool is run on.
Init ==
    /\ images_dir \in {d \in Directories :
                        \A f \in DOMAIN d : ~IsImage(f) => d[f] = Unparseable}
    /\ pc = "collect_images"
    /\ tag_to_images = <<>>
    /\ rendered = <<>>
    /\ output = <<>>
    /\ output_images = {}
    /\ output_thumbs = {}
    /\ stdout = <<>>
    /\ exiftool_calls = <<>>
    /\ returned = None

\* tag_to_images = collect_images(); an exception of get_metadata ends main.
CollectImages ==
    /\ pc = "collect_images"
    /\ \E listing \in Listings(images_dir) :
       \E r \in {collect_images(images_dir, listing)} :
         /\ exiftool_calls' = r.calls
         /\ IF r.raised
            THEN pc' = "failed" /\ UNCHANGED tag_to_images
            ELSE pc' = "render_index_page" /\ tag_to_images' = r.catalog
    /\ UNCHANGED <<images_dir, rendered, output, output_images, output_thumbs,
                   stdout, returned>>

\* ---------------------------------------------------------------- rendering

index_html == <<"i", "n", "d", "e", "x", ".", "h", "t", "m", "l">>
dot_html == <<".", "h", "t", "m", "l">>

\* with open(path, "w") as f: f.write(html) for each page, in order: a later
\* write to a path replaces the earlier one.
RECURSIVE WriteAll(_, _)
WriteAll(out, pages) ==
    IF pages = <<>> THEN out
    ELSE LET page == Head(pages)
             file == [template |-> page.template, context |-> page.context]
         IN  WriteAll([p \in DOMAIN out \cup {page.output_file} |->
                          IF p = page.output_file THEN file ELSE out[p]],
                      Tail(pages))

\* sorted(tag_to_images.items()): insertion sort by the tag (the keys of a
\* dict differ, so the comparison never reaches the image lists).
RECURSIVE InsertItem(_, _)
InsertItem(item, s) ==
    IF s = <<>> THEN <<item>>
    ELSE IF StrLess(item.tag, Head(s).tag) THEN <<item>> \o s
    ELSE <<Head(s)>> \o InsertItem(item, Tail(s))

\* The items in the dict's own order (sorted() left out).
unsorted_items(items) == items

RECURSIVE sorted_items(_)
sorted_items(items) ==
    IF items = <<>> THEN <<>>
    ELSE InsertItem(Head(items), sorted_items(Tail(items)))

\* The tags list render_index_page builds.
index_tags(catalog) ==
    LET items == sorted_items(catalog)
    IN  [i \in 1..Len(items) |->
            [label |-> items[i].tag,
             slug |-> slugify(items[i].tag),
             count |-> Len(items[i].images)]]

\* render_index_page: the one page it renders and writes.
index_pages(catalog) ==
    << [template |-> "index.html",
        context |-> [tags |-> index_tags(catalog)],
        output_file |-> index_html] >>

\* render_tag_pages: one page per item of the dict, in the dict's order.
tag_pages(catalog) ==
    [i \in 1..Len(catalog) |->
        [template |-> "tag.html",
         context |-> [tag |-> catalog[i].tag, images |-> catalog[i].images],
         output_file |-> slugify(catalog[i].tag) \o dot_html]]

\* prev_slug without the index > 0 test: images[-1] is the last image.
prev_slug_wrap(images, index) ==
    IF index > 0 THEN images[(index - 1) + 1].slug ELSE images[Len(images)].slug

\* prev_slug and next_slug of the image at index (from 0) of images.
prev_slug(images, index) ==
    IF index > 0 THEN images[(index - 1) + 1].slug ELSE None

next_slug(images, index) ==
    IF index < Len(images) - 1 THEN images[(index + 1) + 1].slug ELSE None

\* The inner loop of render_image_pages_per_tag for one tag.
image_pages_of_tag(tag, images) ==
    LET tag_slug == slugify(tag) IN
    [n \in 1..Len(images) |->
        [template |-> "image.html",
         context |-> [filename |-> images[n].filename,
                      metadata |-> images[n].metadata,
                      prev_slug |-> prev_slug(images, n - 1),
                      next_slug |-> next_slug(images, n - 1),
                      tag_slug |-> tag_slug],
         output_file |-> images[n].slug \o <<"-">> \o tag_slug \o dot_html]]

\* render_image_pages_per_tag: the pages of every tag, in the dict's order.
RECURSIVE image_pages(_)
image_pages(catalog) ==
    IF catalog = <<>> THEN <<>>
    ELSE image_pages_of_tag(Head(catalog).tag, Head(catalog).images)
         \o image_pages(Tail(catalog))

RenderIndexPage ==
    /\ pc = "render_index_page"
    /\ \E pages \in {index_pages(tag_to_images)} :
         /\ rendered' = rendered \o pages
         /\ output' = WriteAll(output, pages)
    /\ pc' = "render_tag_pages"
    /\ UNCHANGED <<images_dir, tag_to_images, output_images, output_thumbs,
                   stdout, exiftool_calls, returned>>

RenderTagPages ==
    /\ pc = "render_tag_pages"
    /\ \E pages \in {tag_pages(tag_to_images)} :
         /\ rendered' = rendered \o pages
         /\ output' = WriteAll(output, pages)
    /\ pc' = "render_image_pages_per_tag"
    /\ UNCHANGED <<images_dir, tag_to_images, output_images, output_thumbs,
                   stdout, exiftool_calls, returned>>

RenderImagePagesPerTag ==
    /\ pc = "render_image_pages_per_tag"
    /\ \E pages \in {image_pages(tag_to_images)} :
         /\ rendered' = rendered \o pages
         /\ output' = WriteAll(output, pages)
    /\ pc' = "copy_images"
    /\ UNCHANGED <<images_dir, tag_to_images, output_images, output_thumbs,
                   stdout, exiftool_calls, returned>>

\* ---------------------------------------------------------------- assets

\* Only the images that some tag lists.
copied_tagged(listing) ==
    {listing[i] : i \in {j \in 1..Len(listing) :
        /\ IsImage(listing[j])
        /\ \E t \in 1..Len(tag_to_images) :
             \E n \in 1..Len(tag_to_images[t].images) :
                tag_to_images[t].images[n].filename = listing[j]}}

\* The files copy_images copies out of a listing of the directory.
copied(listing) == {listing[i] : i \in {j \in 1..Len(listing) : IsImage(listing[j])}}

CopyImages ==
    /\ pc = "copy_images"
    /\ \E listing \in Listings(images_dir) :
         output_images' = output_images \cup copied(listing)
    /\ pc' = "generate_thumbnails"
    /\ UNCHANGED <<images_dir, tag_to_images, rendered, output, output_thumbs,
                   stdout, exiftool_calls, returned>>

\* generate_thumbnails: convert runs on the images in the order os.listdir
\* gives, and subprocess.run(check=True) raises at the first one it fails on,
\* which leaves the thumbnails made before it.  Every order being possible,
\* the thumbnails made before a failure are any set of images but all of them.
GenerateThumbnails ==
    /\ pc = "generate_thumbnails"
    /\ \E made \in SUBSET {f \in DOMAIN images_dir : IsImage(f)} :
         /\ output_thumbs' = output_thumbs \cup made
         /\ pc' = IF made = {f \in DOMAIN images_dir : IsImage(f)}
                  THEN "print" ELSE "failed"
    /\ UNCHANGED <<images_dir, tag_to_images, rendered, output, output_images,
                   stdout, exiftool_calls, returned>>

\* print("Gallery successfully generated.")
PrintDone ==
    /\ pc = "print"
    /\ stdout' = Append(stdout, "Gallery successfully generated.")
    /\ pc' = "done"
    /\ UNCHANGED <<images_dir, tag_to_images, rendered, output, output_images,
                   output_thumbs, exiftool_calls, returned>>

Next ==
    \/ CollectImages
    \/ RenderIndexPage
    \/ RenderTagPages
    \/ RenderImagePagesPerTag
    \/ CopyImages
    \/ GenerateThumbnails
    \/ PrintDone

Spec == Init /\ [][Next]_vars

\* ---------------------------------------------------------------- one get_metadata call

\* A directory of one image, with anything exiftool can print for it.
InitCall ==
    /\ images_dir \in [{a_jpg} -> CallOutputs]
    /\ pc = "get_metadata"
    /\ tag_to_images = <<>>
    /\ rendered = <<>>
    /\ output = <<>>
    /\ output_images = {}
    /\ output_thumbs = {}
    /\ stdout = <<>>
    /\ exiftool_calls = <<>>
    /\ returned = None

\* metadata, keywords = get_metadata(filepath)
GetMetadata ==
    /\ pc = "get_metadata"
    /\ exiftool_calls' = Append(exiftool_calls, a_jpg)
    /\ IF images_dir[a_jpg].ok
       THEN pc' = "returned" /\ returned' = get_metadata(images_dir[a_jpg])
       ELSE pc' = "raised" /\ UNCHANGED returned
    /\ UNCHANGED <<images_dir, tag_to_images, rendered, output, output_images,
                   output_thumbs, stdout>>

NextCall == GetMetadata

SpecCall == InitCall /\ [][NextCall]_vars
\* ---------------------------------------------------------------- properties

\* main holds the catalog collect_images returned.
CatalogBuilt ==
    pc \in {"render_index_page", "render_tag_pages", "render_image_pages_per_tag",
            "copy_images", "generate_thumbnails", "print", "done"}

\* The filenames of an image sequence, in its order.
Filenames(images) == [n \in 1..Len(images) |-> images[n].filename]

\* The pages of one template among the rendered ones, in rendering order.
RenderedBy(template) == SelectSeq(rendered, LAMBDA r : r.template = template)

\* How many images the tags before the t-th one of the catalog have.
RECURSIVE ImagesBefore(_)
ImagesBefore(t) ==
    IF t <= 1 THEN 0 ELSE ImagesBefore(t - 1) + Len(tag_to_images[t - 1].images)

\* The images directory's image files that carry the tag.
Members(tag) ==
    {f \in DOMAIN images_dir :
        /\ IsImage(f)
        /\ \E n \in 1..Len(get_metadata(images_dir[f]).keywords) :
              get_metadata(images_dir[f]).keywords[n] = tag}

\* C1: for every tag T and every position p of T's image sequence, the detail
\* page rendered for (image at p, T) has prev_slug = the slug of the image at
\* p-1, or None at p = 0, and next_slug = the slug of the image at p+1, or None
\* at the last position; each tag's sequence gives its own pairs.
C1_DetailPagesLinkNeighbours ==
    pc \in {"copy_images", "generate_thumbnails", "print", "done"} =>
        LET pages == RenderedBy("image.html") IN
        \A t \in 1..Len(tag_to_images) :
            LET images == tag_to_images[t].images IN
            \A p \in 0..(Len(images) - 1) :
                LET page == pages[ImagesBefore(t) + p + 1] IN
                /\ page.context.filename = images[p + 1].filename
                /\ page.context.tag_slug = slugify(tag_to_images[t].tag)
                /\ page.context.prev_slug =
                      (IF p > 0 THEN slugify(splitext_root(images[p].filename))
                       ELSE None)
                /\ page.context.next_slug =
                      (IF p < Len(images) - 1
                       THEN slugify(splitext_root(images[p + 2].filename))
                       ELSE None)

\* C1's case: a tag of three different images, the middle one also alone in
\* another tag, and the detail pages rendered.
C1_Witness ==
    /\ pc = "done"
    /\ \E t, u \in 1..Len(tag_to_images) :
          /\ Len(tag_to_images[t].images) = 3
          /\ Cardinality({tag_to_images[t].images[n].filename : n \in 1..3}) = 3
          /\ tag_to_images[u].images = <<tag_to_images[t].images[2]>>

\* C2: every tag's image sequence lists the tag's member images in ascending
\* filename order, is the sequence the listing template gets, and (compared
\* when collect_images returns it) is the same for every order in which the
\* directory can be listed.
C2_ListingInFilenameOrder ==
    CatalogBuilt =>
        /\ \A t \in 1..Len(tag_to_images) :
              LET names == Filenames(tag_to_images[t].images) IN
              /\ \A i, j \in 1..Len(names) : i < j => ~StrLess(names[j], names[i])
              /\ {names[i] : i \in 1..Len(names)} = Members(tag_to_images[t].tag)
        /\ pc = "render_index_page" =>
              \A listing \in Listings(images_dir) :
                  collect_images(images_dir, listing).catalog = tag_to_images
        /\ pc \notin {"render_index_page", "render_tag_pages"} =>
              LET pages == RenderedBy("tag.html") IN
              /\ Len(pages) = Len(tag_to_images)
              /\ \A t \in 1..Len(tag_to_images) :
                    /\ pages[t].context.tag = tag_to_images[t].tag
                    /\ pages[t].context.images = tag_to_images[t].images

\* C2's case: a tag listing three files, its listing page rendered.
C2_Witness ==
    /\ pc = "render_image_pages_per_tag"
    /\ \E t \in 1..Len(tag_to_images) :
          /\ Filenames(tag_to_images[t].images) = <<A_png, B_JPG, a_jpg>>
          /\ RenderedBy("tag.html")[t].context.images = tag_to_images[t].images

\* C3: after a completed run every distinct tag has a listing page of its own
\* in the output directory.
C3_EveryTagHasItsOwnPage ==
    pc = "done" =>
        \A t \in 1..Len(tag_to_images) :
            \E path \in DOMAIN output :
                /\ output[path].template = "tag.html"
                /\ output[path].context.tag = tag_to_images[t].tag

\* C4: the index plan has exactly one entry per tag of the catalog, in strictly
\* ascending order of the labels whatever order the tags were found in, and
\* each entry's count is the length of its tag's image sequence.
C4_IndexPlanSorted ==
    (CatalogBuilt /\ pc # "render_index_page") =>
        LET pages == RenderedBy("index.html")
            tags == pages[1].context.tags
        IN  /\ Len(pages) = 1
            /\ Len(tags) = Len(tag_to_images)
            /\ \A k \in 1..(Len(tags) - 1) : StrLess(tags[k].label, tags[k + 1].label)
            /\ \A t \in 1..Len(tag_to_images) :
                  \E k \in 1..Len(tags) :
                      /\ tags[k].label = tag_to_images[t].tag
                      /\ tags[k].count = Len(tag_to_images[t].images)

\* C4's case: the scan found "index" before "Index", with different counts, and
\* the index page is rendered.
C4_Witness ==
    /\ pc = "render_tag_pages"
    /\ Len(tag_to_images) = 2
    /\ tag_to_images[1].tag = tag_index
    /\ tag_to_images[2].tag = tag_Index
    /\ Len(tag_to_images[1].images) # Len(tag_to_images[2].images)

\* C5: get_metadata turns a Keywords string s into the tag list of the list
\* [s], a Keywords list into the string forms of its non-null elements in
\* their order, and an absent Keywords or one of another shape into no tags.
C5_KeywordCoercion ==
    pc = "returned" =>
        LET field == images_dir[a_jpg].Keywords
            nonnull == SelectSeq(field.elems, LAMBDA e : e.t # "null")
        IN  /\ field.shape = "str" =>
                 /\ returned.keywords = <<field.elems[1].v>>
                 /\ returned.keywords =
                       ExtractKeywords([shape |-> "list", elems |-> field.elems])
            /\ field.shape = "list" =>
                 returned.keywords = [n \in 1..Len(nonnull) |-> nonnull[n].v]
            /\ field.shape \notin {"str", "list"} => returned.keywords = <<>>

\* C5's case: a list holding a null before a number, returned as one keyword.
C5_Witness ==
    /\ pc = "returned"
    /\ images_dir[a_jpg].Keywords = [shape |-> "list", elems |-> <<JNull, JNum(<<"7">>)>>]
    /\ returned.keywords = << <<"7">> >>

\* An image file whose Keywords is absent or an empty list.
Untagged(f) ==
    /\ IsImage(f)
    /\ \/ images_dir[f].Keywords.shape = "absent"
       \/ images_dir[f].Keywords = [shape |-> "list", elems |-> <<>>]

SomeUnparseable == \E f \in DOMAIN images_dir : IsImage(f) /\ ~images_dir[f].ok

\* C7: when exiftool's output for some image file does not parse, the run
\* aborts: main gets no catalog, no page is rendered or written, nothing is
\* copied or thumbnailed, exiftool runs on no file twice, and nothing is
\* printed.
C7_UnparseableAborts ==
    SomeUnparseable =>
        /\ pc \in {"collect_images", "failed"}
        /\ tag_to_images = <<>>
        /\ rendered = <<>>
        /\ output = <<>>
        /\ output_images = {}
        /\ output_thumbs = {}
        /\ stdout = <<>>
        /\ \A i, j \in 1..Len(exiftool_calls) :
              i # j => exiftool_calls[i] # exiftool_calls[j]

\* C7's case: the run failed on the third image, after two with keywords.
C7_Witness ==
    /\ pc = "failed"
    /\ SomeUnparseable
    /\ Len(exiftool_calls) = 3
    /\ \A i \in 1..2 :
          /\ images_dir[exiftool_calls[i]].ok
          /\ get_metadata(images_dir[exiftool_calls[i]]).keywords # <<>>

\* The filenames of the detail pages reached from {slug}-{tag_slug}.html by
\* following next_slug, at most fuel pages.
RECURSIVE FollowNext(_, _, _)
FollowNext(slug, tag_slug, fuel) ==
    LET path == slug \o <<"-">> \o tag_slug \o dot_html IN
    IF fuel = 0 \/ path \notin DOMAIN output THEN <<>>
    ELSE IF output[path].template # "image.html" THEN <<>>
    ELSE <<output[path].context.filename>>
         \o (IF output[path].context.next_slug = None THEN <<>>
             ELSE FollowNext(output[path].context.next_slug, tag_slug, fuel - 1))

\* The same, following prev_slug.
RECURSIVE FollowPrev(_, _, _)
FollowPrev(slug, tag_slug, fuel) ==
    LET path == slug \o <<"-">> \o tag_slug \o dot_html IN
    IF fuel = 0 \/ path \notin DOMAIN output THEN <<>>
    ELSE IF output[path].template # "image.html" THEN <<>>
    ELSE <<output[path].context.filename>>
         \o (IF output[path].context.prev_slug = None THEN <<>>
             ELSE FollowPrev(output[path].context.prev_slug, tag_slug, fuel - 1))

Reverse(s) == [n \in 1..Len(s) |-> s[Len(s) + 1 - n]]

\* C8: after a completed run, for every tag, following next_slug from the
\* detail page file of the listing's first image visits exactly the listing's
\* images in listing order and ends on a page without next_slug, and following
\* prev_slug from the last image's page visits them in reverse.
C8_NavigationFollowsListing ==
    pc = "done" =>
        \A t \in 1..Len(tag_to_images) :
            LET images == tag_to_images[t].images
                tag_slug == slugify(tag_to_images[t].tag)
            IN  /\ FollowNext(images[1].slug, tag_slug, Len(images) + 1)
                      = Filenames(images)
                /\ FollowPrev(images[Len(images)].slug, tag_slug, Len(images) + 1)
                      = Reverse(Filenames(images))

\* C9: after a completed run output/index.html holds the rendering of the tag
\* index plan.
C9_IndexHtmlHoldsIndex ==
    pc = "done" =>
        /\ index_html \in DOMAIN output
        /\ output[index_html].template = "index.html"

\* C10: in the catalog no tag has an empty image sequence and no image record
\* is twice in one tag's sequence.
C10_NoEmptyNoRepeat ==
    CatalogBuilt =>
        \A t \in 1..Len(tag_to_images) :
            LET images == tag_to_images[t].images IN
            /\ images # <<>>
            /\ \A i, j \in 1..Len(images) : i # j => images[i] # images[j]
====
